---- MODULE Spec2Model ----
(***************************************************************************)
(* user-blueprint: the UserHandler capability registry (user.py), the      *)
(* blueprint routes that drive it (blueprint.py) and the host callbacks    *)
(* of the demo application (demo.py), as a state machine.                  *)
(*                                                                         *)
(* One action is one HTTP request handled to completion.  Time is in whole *)
(* seconds, the resolution of the expiry check of PyJWT 1.x, the release   *)
(* line whose jwt.decode accepts a call without `algorithms` as            *)
(* user.py:211 makes it.                                                   *)
(***************************************************************************)
EXTENDS Integers, Sequences, FiniteSets, TLC

VARIABLES
    handler,    \* the UserHandler of the blueprint: its slots and its secret
    users,      \* the host's user database, in insertion order
    now,        \* the clock, in seconds
    mailbox,    \* the reset e-mails delivered: (user, link)
    session,    \* the visitor's flask_login session: the user logged in
    last,       \* what the request handled last was given and did
    requests    \* the registration requests being handled at the same time

vars == <<handler, users, now, mailbox, session, last, requests>>

\* ------------------------------------------------------------------ bounds
\* The clock never runs past MaxTime.
MaxTime == 601
\* The reset e-mails kept in the mailbox.
MaxMail == 1

\* ------------------------------------------------------- program constants
\* user.py:278  "exp": time() + 600
TTL == 600

\* Python's None where a string or a callback is expected.
None == "None"
\* Python's None where a user object is expected (users are numbered from 1).
NoUser == 0
\* Python's None where a mapping is expected.
NoneMapping == [py_none |-> TRUE]

\* ------------------------------------------------------------ input values
\* What a visitor types into the forms, in the letter case he likes.
\* str.lower() is modelled on these values.
FormUsernames == {"alice", "Bobby"}
FormEmails == {"A@x.io", "b@x.io"}
FormPasswords == {"Secret123", "NewPass123"}
OtherKey == "attacker-key"

\* str.lower()
lower(s) ==
    CASE s = "Bobby" -> "bobby"
      [] s = "A@x.io" -> "a@x.io"
      [] OTHER -> s

\* ------------------------------------------------------------------ passlib
\* argon2.hash: a one-way hash, a value of another kind than the password
\* it was made from (its random salt decides nothing here and is left out).
argon2_hash(password) ==
    [scheme |-> "argon2", pw |-> password]

\* argon2.verify: "raise" on a stored value that is no argon2 hash.
argon2_verify(password, stored) ==
    IF stored.scheme # "argon2" THEN "raise"
    ELSE IF stored.pw = password THEN "true" ELSE "false"

\* -------------------------------------------------------------------- PyJWT
\* jwt.encode(payload, key): the payload and a signature binding it to key.
jwt_encode(payload, key) ==
    [wellformed |-> TRUE, payload |-> payload, signer |-> key, signed |-> payload]

SignatureVerifies(token, key) ==
    /\ token.wellformed
    /\ key # None
    /\ token.signer = key
    /\ token.signed = token.payload

\* PyJWT 1.x _validate_exp: exp < now raises ExpiredSignatureError.
jwt_expired(payload, t) ==
    "exp" \in DOMAIN payload /\ payload.exp < t

\* jwt.decode called with verify_exp off: an expired token still decodes.
jwt_decode_no_expiry(token, key, t) ==
    IF ~SignatureVerifies(token, key) THEN [raised |-> TRUE, data |-> NoneMapping]
    ELSE [raised |-> FALSE, data |-> token.payload]

\* jwt.decode called with verify=False: any well-formed token decodes.
jwt_decode_unverified(token, key, t) ==
    IF ~token.wellformed THEN [raised |-> TRUE, data |-> NoneMapping]
    ELSE IF jwt_expired(token.payload, t) THEN [raised |-> TRUE, data |-> NoneMapping]
    ELSE [raised |-> FALSE, data |-> token.payload]

\* jwt.decode(token, key): raises unless the signature verifies and the
\* token is unexpired; otherwise the payload.
jwt_decode(token, key, t) ==
    IF ~SignatureVerifies(token, key) THEN [raised |-> TRUE, data |-> NoneMapping]
    ELSE IF jwt_expired(token.payload, t) THEN [raised |-> TRUE, data |-> NoneMapping]
    ELSE [raised |-> FALSE, data |-> token.payload]

\* ------------------------------------------------------- host store (demo)
\* demo.py get_user_by_identifier: first user, in insertion order, whose
\* username or email equals the identifier.
get_user_by_identifier(us, identifier) ==
    LET hits == {i \in 1..Len(us) :
                    us[i].username = identifier \/ us[i].email = identifier}
    IN IF hits = {} THEN NoUser
       ELSE CHOOSE i \in hits : \A j \in hits : i <= j

get_user_identifier(us, user) == us[user].email

get_user_password(us, user) == us[user].password

\* A password getter of a host whose column holds hashes of an older scheme:
\* what it returns is no argon2 hash.
get_legacy_password(us, user) == [scheme |-> "md5", pw |-> us[user].password.pw]

\* A handler that keeps calling the password getter it was first given.
call_password_getter_first_given(h, us, user) == get_user_password(us, user)

\* self._password_getter(user): the callback in the slot at the time of the call.
call_password_getter(h, us, user) ==
    IF h.password_getter = "get_user_password"
    THEN get_user_password(us, user)
    ELSE get_legacy_password(us, user)

demo_insert_user(us, data) ==
    IF get_user_by_identifier(us, data.username) # NoUser THEN [ok |-> FALSE, users |-> us]
    ELSE IF get_user_by_identifier(us, data.email) # NoUser THEN [ok |-> FALSE, users |-> us]
    ELSE [ok |-> TRUE,
          users |-> Append(us, [username |-> data.username,
                                email |-> data.email,
                                password |-> data.password])]

update_user_password(us, user, password_hash) ==
    [ok |-> TRUE, users |-> [us EXCEPT ![user].password = password_hash]]

\* ------------------------------------------------------------- UserHandler
\* UserHandler.__init__: every slot None but the default token validator.
UserHandler ==
    [reset_token_secret |-> None,
     password_getter |-> None,
     password_reset_email_sender |-> None,
     password_updater |-> None,
     reset_key_getter |-> None,
     reset_token_validator |-> "accept_reset_token",
     user_by_reset_key_getter |-> None,
     user_getter |-> None,
     user_inserter |-> None]

\* The handler as the host configures it at start-up: the callbacks of
\* demo.py in the slots and the demo's signing secret in reset_token_secret,
\* the attribute the class docstring of UserHandler requires set (demo.py
\* itself assigns the value to an attribute named token_signing_key).
ConfiguredHandler ==
    [UserHandler EXCEPT
        !.reset_token_secret = "DemoResetTokenSecret",
        !.password_getter = "get_user_password",
        !.password_reset_email_sender = "console_password_reset_email_sender",
        !.password_updater = "update_user_password",
        !.reset_key_getter = "get_user_identifier",
        !.user_by_reset_key_getter = "get_user_by_identifier",
        !.user_getter = "get_user_by_identifier",
        !.user_inserter = "insert_user"]

\* UserHandler._accept_reset_token
accept_reset_token(token) == token # NoneMapping

\* get_user that answers None, as for an unknown identifier, while no user
\* getter is assigned.
get_user_none_when_unassigned(h, us, identifier) ==
    IF h.user_getter = None
    THEN [raised |-> FALSE, user |-> NoUser, calls |-> <<>>]
    ELSE [raised |-> FALSE,
          user |-> get_user_by_identifier(us, identifier),
          calls |-> <<"user_getter">>]

\* UserHandler.get_user: calling an unassigned slot raises TypeError.
get_user(h, us, identifier) ==
    IF h.user_getter = None
    THEN [raised |-> TRUE, user |-> NoUser, calls |-> <<>>]
    ELSE [raised |-> FALSE,
          user |-> get_user_by_identifier(us, identifier),
          calls |-> <<"user_getter">>]

\* flask_login.login_user(user, remember=...): the session now belongs to
\* user; `remember` only decides the lifetime of the cookie.
flask_login_login_user(user, remember) == [user_id |-> user]

Anonymous == [user_id |-> NoUser]

\* LoginData.from_form
LoginData_from_form(username, password, remember) ==
    [username |-> lower(username), password |-> password, remember |-> remember]

\* RegistrationData.from_form that forgets argon2.hash: the password as typed.
RegistrationData_from_form_unhashed(username, email, password) ==
    [username |-> lower(username),
     email |-> lower(email),
     password |-> [scheme |-> "plain", pw |-> password]]

\* RegistrationData.from_form (first_name and last_name are carried along
\* untouched by every flow and are left out).
RegistrationData_from_form(username, email, password) ==
    [username |-> lower(username),
     email |-> lower(email),
     password |-> argon2_hash(password)]

\* login_user that trusts the identifier and never verifies the password.
login_user_unverified(h, us, ses, data) ==
    LET g == get_user(h, us, data.username)
    IN IF g.raised \/ g.user = NoUser
       THEN [result |-> IF g.raised THEN "raise" ELSE "False", user |-> g.user,
             session |-> ses, login_user |-> <<>>, calls |-> g.calls]
       ELSE [result |-> "True", user |-> g.user,
             session |-> flask_login_login_user(g.user, data.remember),
             login_user |-> <<g.user, data.remember>>,
             calls |-> g.calls \o <<"password_getter">>]

\* login_user without the `except Exception`: what argon2.verify raises
\* reaches the caller.
login_user_verify_propagates(h, us, ses, data) ==
    LET g == get_user(h, us, data.username)
        failed(res, calls) ==
            [result |-> res, user |-> g.user, session |-> ses,
             login_user |-> <<>>, calls |-> calls]
        verified == argon2_verify(data.password, call_password_getter(h, us, g.user))
    IN IF g.raised THEN failed("raise", g.calls)
       ELSE IF g.user = NoUser THEN failed("False", g.calls)
       ELSE IF h.password_getter = None THEN failed("raise", g.calls)
       ELSE IF verified = "true"
            THEN [result |-> "True",
                  user |-> g.user,
                  session |-> flask_login_login_user(g.user, data.remember),
                  login_user |-> <<g.user, data.remember>>,
                  calls |-> g.calls \o <<"password_getter">>]
       ELSE IF verified = "raise"
            THEN failed("raise", g.calls \o <<"password_getter">>)
            ELSE failed("False", g.calls \o <<"password_getter">>)

\* login_user that names the cause of a failure in its result.
login_user_naming_cause(h, us, ses, data) ==
    LET g == get_user(h, us, data.username)
        failed(res, calls) ==
            [result |-> res, user |-> g.user, session |-> ses,
             login_user |-> <<>>, calls |-> calls]
    IN IF g.raised THEN failed("raise", g.calls)
       ELSE IF g.user = NoUser THEN failed("NoSuchUser", g.calls)
       ELSE IF h.password_getter = None THEN failed("BadPassword", g.calls)
       ELSE IF argon2_verify(data.password, call_password_getter(h, us, g.user)) = "true"
            THEN [result |-> "True",
                  user |-> g.user,
                  session |-> flask_login_login_user(g.user, data.remember),
                  login_user |-> <<g.user, data.remember>>,
                  calls |-> g.calls \o <<"password_getter">>]
            ELSE failed("BadPassword", g.calls \o <<"password_getter">>)

\* UserHandler.login_user.  `except Exception` turns a raising verify and
\* the TypeError of an unassigned password getter into False.
login_user(h, us, ses, data) ==
    LET g == get_user(h, us, data.username)
        failed(res, calls) ==
            [result |-> res, user |-> g.user, session |-> ses,
             login_user |-> <<>>, calls |-> calls]
    IN IF g.raised THEN failed("raise", g.calls)
       ELSE IF g.user = NoUser THEN failed("False", g.calls)
       ELSE IF h.password_getter = None THEN failed("False", g.calls)
       ELSE IF argon2_verify(data.password, call_password_getter(h, us, g.user)) = "true"
            THEN [result |-> "True",
                  user |-> g.user,
                  session |-> flask_login_login_user(g.user, data.remember),
                  login_user |-> <<g.user, data.remember>>,
                  calls |-> g.calls \o <<"password_getter">>]
            ELSE failed("False", g.calls \o <<"password_getter">>)

\* RegistrationForm.validate_username: ValidationError (ok = FALSE) when a
\* user resolves for the lower-cased field.
validate_username(h, us, username) ==
    LET g == get_user(h, us, lower(username))
    IN [raised |-> g.raised, ok |-> ~g.raised /\ g.user = NoUser, calls |-> g.calls]

\* validate_email that looks nobody up and lets every address through.
validate_email_unchecked(h, us, email) ==
    [raised |-> FALSE, ok |-> TRUE, calls |-> <<>>]

\* RegistrationForm.validate_email
validate_email(h, us, email) ==
    LET g == get_user(h, us, lower(email))
    IN [raised |-> g.raised, ok |-> ~g.raised /\ g.user = NoUser, calls |-> g.calls]

\* insert_user that looks the username and the address up again and calls
\* the inserter only when neither resolves a user.
insert_user_rechecked(h, us, data) ==
    IF h.user_inserter = None
    THEN [result |-> "raise", users |-> us, calls |-> <<>>]
    ELSE IF \/ get_user(h, us, data.username).user # NoUser
            \/ get_user(h, us, data.email).user # NoUser
         THEN [result |-> "False", users |-> us, calls |-> <<>>]
    ELSE LET r == demo_insert_user(us, data)
         IN [result |-> IF r.ok THEN "True" ELSE "False",
             users |-> r.users,
             calls |-> <<"user_inserter">>]

\* UserHandler.insert_user
insert_user(h, us, data) ==
    IF h.user_inserter = None
    THEN [result |-> "raise", users |-> us, calls |-> <<>>]
    ELSE LET r == demo_insert_user(us, data)
         IN [result |-> IF r.ok THEN "True" ELSE "False",
             users |-> r.users,
             calls |-> <<"user_inserter">>]

\* update_password that reports success and stores nothing.
update_password_not_stored(h, us, user, password_hash) ==
    IF h.password_updater = None
    THEN [result |-> "raise", users |-> us, calls |-> <<>>]
    ELSE [result |-> "True", users |-> us, calls |-> <<"password_updater">>]

\* UserHandler.update_password
update_password(h, us, user, password_hash) ==
    IF h.password_updater = None
    THEN [result |-> "raise", users |-> us, calls |-> <<>>]
    ELSE LET r == update_user_password(us, user, password_hash)
         IN [result |-> IF r.ok THEN "True" ELSE "False",
             users |-> r.users,
             calls |-> <<"password_updater">>]

\* The verdict of the validator in the slot: the default validator's own,
\* or the one the host's validator gives ("accept", "reject" or "raise").
validator_verdict(h, data, host_verdict) ==
    IF h.reset_token_validator = "accept_reset_token"
    THEN (IF accept_reset_token(data) THEN "accept" ELSE "reject")
    ELSE host_verdict

\* get_user_for_reset_token that lets a validator of the host stand in for
\* the signature check: with one registered, the token is decoded unverified.
get_user_for_reset_token_validator_instead(h, us, token, t, host_verdict) ==
    LET d == IF h.reset_token_validator = "accept_reset_token"
             THEN jwt_decode(token, h.reset_token_secret, t)
             ELSE jwt_decode_unverified(token, h.reset_token_secret, t)
        verdict == validator_verdict(h, d.data, host_verdict)
        out(res, user, calls) == [result |-> res, user |-> user, calls |-> calls]
    IN IF d.raised THEN out("None", NoUser, <<>>)
       ELSE IF verdict # "accept"
            THEN out("None", NoUser, <<"reset_token_validator">>)
       ELSE IF "reset_key" \notin DOMAIN d.data
            THEN out("raise", NoUser, <<"reset_token_validator">>)
       ELSE IF h.user_by_reset_key_getter = None
            THEN out("raise", NoUser, <<"reset_token_validator">>)
       ELSE LET user == get_user_by_identifier(us, d.data.reset_key)
            IN out(IF user = NoUser THEN "None" ELSE "user", user,
                   <<"reset_token_validator", "user_by_reset_key_getter">>)

\* get_user_for_reset_token that refuses the token the last password reset
\* was completed with: a single-use token.
get_user_for_reset_token_single_use(h, us, token, t, host_verdict) ==
    LET d == jwt_decode(token, h.reset_token_secret, t)
        verdict == validator_verdict(h, d.data, host_verdict)
        used == /\ token.wellformed
                /\ token = last.token
                /\ \/ last.op = "tick"
                   \/ \E i \in DOMAIN last.calls : last.calls[i] = "password_updater"
        out(res, user, calls) == [result |-> res, user |-> user, calls |-> calls]
    IN IF d.raised \/ used THEN out("None", NoUser, <<>>)
       ELSE IF verdict # "accept"
            THEN out("None", NoUser, <<"reset_token_validator">>)
       ELSE IF "reset_key" \notin DOMAIN d.data
            THEN out("raise", NoUser, <<"reset_token_validator">>)
       ELSE IF h.user_by_reset_key_getter = None
            THEN out("raise", NoUser, <<"reset_token_validator">>)
       ELSE LET user == get_user_by_identifier(us, d.data.reset_key)
            IN out(IF user = NoUser THEN "None" ELSE "user", user,
                   <<"reset_token_validator", "user_by_reset_key_getter">>)

\* UserHandler.get_user_for_reset_token.  The try block covers jwt.decode
\* and the validator; data["reset_key"] and the lookup are outside it.
get_user_for_reset_token(h, us, token, t, host_verdict) ==
    LET d == jwt_decode(token, h.reset_token_secret, t)
        verdict == validator_verdict(h, d.data, host_verdict)
        out(res, user, calls) == [result |-> res, user |-> user, calls |-> calls]
    IN IF d.raised THEN out("None", NoUser, <<>>)
       ELSE IF verdict # "accept"
            THEN out("None", NoUser, <<"reset_token_validator">>)
       ELSE IF "reset_key" \notin DOMAIN d.data
            THEN out("raise", NoUser, <<"reset_token_validator">>)
       ELSE IF h.user_by_reset_key_getter = None
            THEN out("raise", NoUser, <<"reset_token_validator">>)
       ELSE LET user == get_user_by_identifier(us, d.data.reset_key)
            IN out(IF user = NoUser THEN "None" ELSE "user", user,
                   <<"reset_token_validator", "user_by_reset_key_getter">>)

\* url_for(".reset", token=token, _external=True)
url_for_reset(token) == [endpoint |-> "auth.reset", token |-> token]

\* The host's e-mail sender: delivers the link out of band and reports
\* whether it did.
console_password_reset_email_sender(user, link, delivered) ==
    [ok |-> delivered,
     mail |-> IF delivered THEN {[user |-> user, link |-> link]} ELSE {}]

\* A token that carries the username where the reset key belongs.
reset_token_keyed_by_username(h, us, user, t) ==
    jwt_encode([reset_key |-> us[user].username, exp |-> t + TTL],
               h.reset_token_secret)

\* The token send_password_reset_email signs:
\* jwt.encode({"reset_key": reset_key_getter(user), "exp": time() + 600}, secret)
reset_token(h, us, user, t) ==
    jwt_encode([reset_key |-> get_user_identifier(us, user), exp |-> t + TTL],
               h.reset_token_secret)

\* send_password_reset_email that returns True once the sender was called,
\* whatever the sender returned.
send_password_reset_email_sent_is_true(h, us, email, t, delivered) ==
    LET g == get_user(h, us, email)
        out(res, mail, calls) ==
            [result |-> res, user |-> g.user, mail |-> mail, calls |-> calls]
    IN IF g.raised THEN out("raise", {}, g.calls)
       ELSE IF g.user = NoUser THEN out("False", {}, g.calls)
       ELSE IF h.reset_key_getter = None THEN out("raise", {}, g.calls)
       ELSE IF h.reset_token_secret = None
            THEN out("raise", {}, g.calls \o <<"reset_key_getter">>)
       ELSE IF h.password_reset_email_sender = None
            THEN out("raise", {}, g.calls \o <<"reset_key_getter">>)
       ELSE LET token == reset_token(h, us, g.user, t)
                s == console_password_reset_email_sender(
                         g.user, url_for_reset(token), delivered)
            IN out("True", s.mail,
                   g.calls \o <<"reset_key_getter", "password_reset_email_sender">>)

\* UserHandler.send_password_reset_email
send_password_reset_email(h, us, email, t, delivered) ==
    LET g == get_user(h, us, email)
        out(res, mail, calls) ==
            [result |-> res, user |-> g.user, mail |-> mail, calls |-> calls]
    IN IF g.raised THEN out("raise", {}, g.calls)
       ELSE IF g.user = NoUser THEN out("False", {}, g.calls)
       ELSE IF h.reset_key_getter = None THEN out("raise", {}, g.calls)
       ELSE IF h.reset_token_secret = None
            THEN out("raise", {}, g.calls \o <<"reset_key_getter">>)
       ELSE IF h.password_reset_email_sender = None
            THEN out("raise", {}, g.calls \o <<"reset_key_getter">>)
       ELSE LET token == reset_token(h, us, g.user, t)
                s == console_password_reset_email_sender(
                         g.user, url_for_reset(token), delivered)
            IN out(IF s.ok THEN "True" ELSE "False", s.mail,
                   g.calls \o <<"reset_key_getter", "password_reset_email_sender">>)

\* ------------------------------------------------------------ the visitors
\* A string that is no JWT at all.
NoToken ==
    [wellformed |-> FALSE, payload |-> NoneMapping, signer |-> None, signed |-> NoneMapping]

LowerEmails == {lower(e) : e \in FormEmails}

DeliveredTokens(mb) == {m.link.token : m \in mb}

\* A delivered token with its payload edited and its signature kept.
TamperedTokens(mb) ==
    ({[t EXCEPT !.payload.reset_key = e] :
        t \in DeliveredTokens(mb), e \in LowerEmails} \ DeliveredTokens(mb)) \cup
    {[t EXCEPT !.payload.exp = @ + TTL] : t \in DeliveredTokens(mb)}

\* Tokens an outsider signs with a key of his own.
ForgedTokens ==
    {jwt_encode([reset_key |-> "a@x.io", exp |-> 2 * TTL], OtherKey)}

\* A JWT the host signed with the same secret for another purpose: it has
\* no reset_key claim.
OtherPurposeTokens(h) ==
    IF h.reset_token_secret = None THEN {}
    ELSE {jwt_encode([verify_key |-> "a@x.io", exp |-> TTL], h.reset_token_secret)}

\* Every string a visitor may put in /reset/<token>.
PresentableTokens(h, mb) ==
    (DeliveredTokens(mb) \cup TamperedTokens(mb) \cup ForgedTokens
        \cup OtherPurposeTokens(h) \cup {NoToken}) \ {}

HostVerdicts == {"accept", "reject", "raise"}

\* What the validator in the slot answers when asked: the default validator
\* accepts, a validator of the host answers as the host decides.
HostVerdictsFor(h) ==
    IF h.reset_token_validator = "accept_reset_token" THEN {"accept"} ELSE HostVerdicts

\* The login form takes a username or an e-mail address.
LoginIdentifiers == FormUsernames \cup {"a@x.io"}

\* The e-mail addresses typed into the reset request form.
RequestEmails == FormEmails \cup LowerEmails

\* What the model remembers of the request handled last.
Idle ==
    [op |-> "start", response |-> "", message |-> "", result |-> "",
     username |-> "", email |-> "", password |-> "", remember |-> FALSE,
     token |-> NoToken, verdict |-> "", user |-> NoUser, calls |-> <<>>,
     login_user |-> <<>>, replaced |-> "", replayed |-> FALSE,
     reset_from |-> "", reset_to |-> "",
     next |-> NoneMapping, location |-> NoneMapping]

Called(req, slot) == \E i \in DOMAIN req.calls : req.calls[i] = slot

\* history: the request handled last completed a password reset for user.
JustReset(user) ==
    last.op = "reset" /\ Called(last, "password_updater") /\ last.user = user

\* history: the token the request before completed a password reset with,
\* remembered while nothing but time passes; NoToken otherwise.
CompletedWith(req) ==
    IF req.op = "tick" \/ (req.op = "reset" /\ Called(req, "password_updater"))
    THEN req.token ELSE NoToken

\* Views that do not look at current_user.is_authenticated.
Authenticated_unchecked == FALSE

\* current_user.is_authenticated
Authenticated == session.user_id # NoUser

\* ------------------------------------------------------------------ routes
\* A URL is the text of it, cut where a URL parser cuts: a scheme with its
\* colon, the two slashes that announce a network location, the network
\* location, the path.
Url(text) == [text |-> text]

Schemes == {"http:", "https:"}

\* url_for("index")
url_for_index == Url(<<"/">>)

\* request.args.get("next") of the login requests: no such parameter, a
\* path of the application, and addresses on another host with and without
\* a scheme.
NextPages ==
    {NoneMapping,
     Url(<<"/profile">>),
     Url(<<"http:", "//", "evil.example", "/profile">>),
     Url(<<"//", "evil.example", "/profile">>)}

\* werkzeug.urls.url_parse: the scheme is what precedes the first colon, the
\* network location what follows "//" up to the path.
url_parse(url) ==
    LET has_scheme == Len(url.text) > 0 /\ url.text[1] \in Schemes
        rest == IF has_scheme THEN Tail(url.text) ELSE url.text
        has_netloc == Len(rest) > 1 /\ rest[1] = "//"
    IN [scheme |-> IF has_scheme THEN url.text[1] ELSE "",
        netloc |-> IF has_netloc THEN rest[2] ELSE "",
        path |-> IF has_netloc THEN SubSeq(rest, 3, Len(rest)) ELSE rest]

\* is_internal_url that takes every URL there is for internal.
is_internal_url_unparsed(url) == url # NoneMapping

\* blueprint.is_internal_url
is_internal_url(url) == url # NoneMapping /\ url_parse(url).netloc = ""

\* blueprint.login after a successful login_user: where redirect() sends
\* the visitor.
next_page(next) == IF ~is_internal_url(next) THEN url_for_index ELSE next

\* A login view that tells the visitor which of the two went wrong.
login_view_naming_cause(r) ==
    CASE r.result = "True" -> [response |-> "redirect:next_page", message |-> ""]
      [] r.result = "False" ->
            [response |-> "login.html",
             message |-> IF r.user = NoUser THEN "Unknown username."
                         ELSE "Invalid password."]
      [] OTHER -> [response |-> "500", message |-> ""]

\* blueprint.login, after validate_on_submit: what the view returns for the
\* outcome r of user_handler.login_user.
login_view(r) ==
    CASE r.result = "True" -> [response |-> "redirect:next_page", message |-> ""]
      [] r.result = "False" ->
            [response |-> "login.html", message |-> "Invalid username or password."]
      [] OTHER -> [response |-> "500", message |-> ""]

\* blueprint.login
login ==
    /\ UNCHANGED <<handler, users, now, mailbox, requests>>
    /\ \/ /\ Authenticated
          /\ last' = [Idle EXCEPT !.op = "login", !.response = "redirect:index"]
          /\ UNCHANGED session
       \/ /\ ~Authenticated
          /\ last' = [Idle EXCEPT !.op = "login", !.response = "login.html"]
          /\ UNCHANGED session
       \/ /\ ~Authenticated
          /\ \E username \in LoginIdentifiers, password \in FormPasswords,
                remember \in BOOLEAN :
                LET data == LoginData_from_form(username, password, remember)
                    r == login_user(handler, users, session, data)
                IN /\ session' = r.session
                   /\ \E next \in IF r.result = "True" THEN NextPages
                                   ELSE {NoneMapping} :
                      last' = [Idle EXCEPT
                        !.next = next,
                        !.location = IF r.result = "True" THEN next_page(next)
                                     ELSE NoneMapping,
                        !.op = "login",
                        !.response = login_view(r).response,
                        !.message = login_view(r).message,
                        !.result = r.result,
                        !.username = data.username,
                        !.password = data.password,
                        !.remember = (r.result = "True" /\ data.remember),
                        !.login_user = r.login_user,
                        !.user = r.user,
                        !.calls = r.calls,
                        !.reset_from = IF JustReset(r.user) THEN last.replaced ELSE "",
                        !.reset_to = IF JustReset(r.user) THEN last.password ELSE ""]

\* blueprint.logout (login_required sends an anonymous visitor to the login view)
logout ==
    /\ session' = Anonymous
    /\ last' = [Idle EXCEPT !.op = "logout", !.response = "redirect:auth.login"]
    /\ UNCHANGED <<handler, users, now, mailbox, requests>>

\* A register view that goes on to the login page whatever insert_user
\* returned.
register_view_redirecting(r) ==
    IF r.result = "raise" THEN "500" ELSE "redirect:auth.login"

\* blueprint.register, after validate_on_submit: what the view returns for
\* the outcome r of user_handler.insert_user.
register_view(r) ==
    CASE r.result = "True" -> "redirect:auth.login"
      [] r.result = "False" -> "register.html"
      [] OTHER -> "500"

\* blueprint.register.  validate_on_submit runs the field validators and
\* RegistrationForm.validate_username / validate_email, both of them.
register ==
    /\ UNCHANGED <<handler, now, mailbox, session, requests>>
    /\ \/ /\ Authenticated
          /\ last' = [Idle EXCEPT !.op = "register", !.response = "redirect:index"]
          /\ UNCHANGED users
       \/ /\ ~Authenticated
          /\ \E username \in FormUsernames, email \in FormEmails, fields_ok \in BOOLEAN :
                LET vu == validate_username(handler, users, username)
                    ve == validate_email(handler, users, email)
                    valid == fields_ok /\ vu.ok /\ ve.ok
                    seen == [Idle EXCEPT !.op = "register",
                                         !.username = lower(username),
                                         !.email = lower(email),
                                         !.calls = vu.calls \o ve.calls]
                IN \/ /\ vu.raised \/ ve.raised
                      /\ last' = [seen EXCEPT !.response = "500", !.result = "raise"]
                      /\ UNCHANGED users
                   \/ /\ ~(vu.raised \/ ve.raised)
                      /\ ~valid
                      /\ last' = [seen EXCEPT !.response = "register.html",
                                              !.result = "invalid"]
                      /\ UNCHANGED users
                   \/ /\ ~(vu.raised \/ ve.raised)
                      /\ valid
                      /\ \E password \in FormPasswords :
                            LET data == RegistrationData_from_form(
                                            username, email, password)
                                r == insert_user(handler, users, data)
                            IN /\ users' = r.users
                               /\ last' = [seen EXCEPT
                                    !.response = register_view(r),
                                    !.result = r.result,
                                    !.password = password,
                                    !.calls = vu.calls \o ve.calls \o r.calls]

\* A reset-request view that reports what send_password_reset_email returned.
request_password_reset_view_reporting(r) ==
    CASE r.result = "True" ->
            [response |-> "request_password_reset.html",
             message |-> "Password reset email sent."]
      [] r.result = "False" ->
            [response |-> "request_password_reset.html",
             message |-> "Sending the password reset email failed."]
      [] OTHER -> [response |-> "500", message |-> ""]

\* blueprint.request_password_reset, after validate_on_submit: what the view
\* returns for the outcome r of user_handler.send_password_reset_email, whose
\* return value it drops.
request_password_reset_view(r) ==
    IF r.result = "raise" THEN [response |-> "500", message |-> ""]
    ELSE [response |-> "request_password_reset.html",
          message |-> "Password reset email sent."]

\* blueprint.request_password_reset: form.email.data goes to the handler as typed.
request_password_reset ==
    /\ UNCHANGED <<handler, users, now, session, requests>>
    /\ \/ /\ Authenticated
          /\ last' = [Idle EXCEPT !.op = "request_password_reset",
                                  !.response = "redirect:index"]
          /\ UNCHANGED mailbox
       \/ /\ ~Authenticated
          /\ last' = [Idle EXCEPT !.op = "request_password_reset",
                                  !.response = "request_password_reset.html"]
          /\ UNCHANGED mailbox
       \/ /\ ~Authenticated
          /\ \E email \in RequestEmails, delivered \in BOOLEAN :
                LET r == send_password_reset_email(handler, users, email, now, delivered)
                IN /\ Cardinality(mailbox \cup r.mail) <= MaxMail
                   /\ mailbox' = mailbox \cup r.mail
                   /\ last' = [Idle EXCEPT
                        !.op = "request_password_reset",
                        !.response = request_password_reset_view(r).response,
                        !.message = request_password_reset_view(r).message,
                        !.result = r.result,
                        !.email = email,
                        !.user = r.user,
                        !.calls = r.calls]

\* blueprint.reset
reset ==
    /\ UNCHANGED <<handler, now, mailbox, session, requests>>
    /\ \/ /\ Authenticated
          /\ last' = [Idle EXCEPT !.op = "reset", !.response = "redirect:index"]
          /\ UNCHANGED users
       \/ /\ ~Authenticated
          /\ \E token \in PresentableTokens(handler, mailbox),
                host_verdict \in HostVerdictsFor(handler) :
                LET r == get_user_for_reset_token(handler, users, token, now, host_verdict)
                    seen == [Idle EXCEPT !.op = "reset", !.token = token,
                                         !.result = r.result,
                                         !.verdict = IF Called(r, "reset_token_validator")
                                                     THEN host_verdict ELSE "",
                                         !.user = r.user, !.calls = r.calls,
                                         !.replayed = (token # NoToken /\ token = CompletedWith(last))]
                IN \/ /\ r.result = "raise"
                      /\ last' = [seen EXCEPT !.response = "500"]
                      /\ UNCHANGED users
                   \/ /\ r.result = "None"
                      /\ last' = [seen EXCEPT !.response = "redirect:auth.login"]
                      /\ UNCHANGED users
                   \/ /\ r.result = "user"
                      /\ last' = [seen EXCEPT
                                    !.response = "reset_password_with_token.html"]
                      /\ UNCHANGED users
                   \/ /\ r.result = "user"
                      /\ \E password \in FormPasswords :
                            LET u == update_password(handler, users, r.user,
                                                     argon2_hash(password))
                            IN /\ users' = u.users
                               /\ last' = [seen EXCEPT
                                    !.response = IF u.result = "raise" THEN "500"
                                                 ELSE "redirect:auth.login",
                                    !.password = password,
                                    !.replaced = users[r.user].password.pw,
                                    !.calls = r.calls \o u.calls]

\* UserHandler.reset_token_validator: the host registers a validator of its own.
reset_token_validator ==
    \E callback \in {"host_token_validator"} :
        /\ handler' = [handler EXCEPT !.reset_token_validator = callback]
        /\ last' = [Idle EXCEPT !.op = "reset_token_validator", !.result = callback]
        /\ UNCHANGED <<users, now, mailbox, session, requests>>

\* ------------------------------------------------------------------- clock
\* Time passes between requests; the instants around the expiry of the
\* delivered tokens are the ones a request can tell apart.
Instants ==
    UNION {{t.payload.exp - 1, t.payload.exp, t.payload.exp + 1} :
              t \in DeliveredTokens(mailbox)}

Tick ==
    \E t \in Instants :
        /\ t > now
        /\ t <= MaxTime
        /\ now' = t
        /\ last' = [Idle EXCEPT !.op = "tick", !.token = CompletedWith(last)]
        /\ UNCHANGED <<handler, users, mailbox, session, requests>>

\* ------------------------------------------------------------ specification
\* The application as it starts serving: handler configured, no users.
Init ==
    /\ handler = ConfiguredHandler
    /\ users = <<>>
    /\ now = 0
    /\ mailbox = {}
    /\ session = Anonymous
    /\ last = Idle
    /\ requests = <<>>

Next ==
    \/ login
    \/ logout
    \/ register
    \/ request_password_reset
    \/ reset
    \/ reset_token_validator
    \/ Tick

Spec == Init /\ [][Next]_vars

\* ------------------------------------------------------------------ claims
\* The request handled last reached UserHandler.get_user_for_reset_token.
Redeeming == last.op = "reset" /\ last.result # ""

\* The token of the request handled last passed jwt.decode's checks.
TokenPasses ==
    /\ SignatureVerifies(last.token, handler.reset_token_secret)
    /\ ~jwt_expired(last.token.payload, now)

\* C1: login_user returns True and hands the user, with the remember flag of
\* the LoginData, to flask_login.login_user exactly when the user getter
\* resolves a user for data.username and argon2.verify accepts the password
\* against the stored hash; in every other case it returns False and the
\* session stays anonymous.
C1_LoginExactlyOnVerifiedPassword ==
    (last.op = "login" /\ last.result # "") =>
        LET u == get_user_by_identifier(users, last.username)
            verified ==
                /\ u # NoUser
                /\ argon2_verify(last.password, get_user_password(users, u)) = "true"
        IN IF verified
           THEN /\ last.result = "True"
                /\ last.login_user = <<u, last.remember>>
                /\ session = [user_id |-> u]
           ELSE /\ last.result = "False"
                /\ last.login_user = <<>>
                /\ session = Anonymous

\* A login with the remember flag set that succeeded for the second user of
\* the database.
C1_Witness ==
    /\ last.op = "login"
    /\ last.result = "True"
    /\ last.remember
    /\ last.login_user = <<2, TRUE>>
    /\ session.user_id = 2

\* C2: a step changes a stored password, or invokes the password updater,
\* only if it is a reset request whose token verifies against the secret, is
\* unexpired, was accepted by the validator and whose reset_key resolves to
\* a user; the one password changed is that user's, and it becomes the hash
\* of the submitted password.
C2_PasswordChangesOnlyByValidToken ==
    [][(\/ Called(last', "password_updater")
        \/ \E i \in DOMAIN users : users'[i].password # users[i].password)
       =>
       /\ last'.op = "reset"
       /\ SignatureVerifies(last'.token, handler.reset_token_secret)
       /\ ~jwt_expired(last'.token.payload, now)
       /\ last'.verdict = "accept"
       /\ "reset_key" \in DOMAIN last'.token.payload
       /\ last'.user # NoUser
       /\ last'.user = get_user_by_identifier(users, last'.token.payload.reset_key)
       /\ users' = [users EXCEPT ![last'.user].password = argon2_hash(last'.password)]
      ]_vars

\* A reset completed for the second user while the first keeps his password.
C2_Witness ==
    /\ Redeeming
    /\ Called(last, "password_updater")
    /\ last.user = 2
    /\ last.replaced # last.password
    /\ users[2].password = argon2_hash(last.password)
    /\ users[1].password # users[2].password

\* C3: for a token whose signature does not verify against
\* reset_token_secret (tampered, signed with another key, or no JWT at all)
\* get_user_for_reset_token returns None, does not raise and does not invoke
\* the reset-key lookup.
C3_BadSignatureIsNone ==
    (Redeeming /\ ~SignatureVerifies(last.token, handler.reset_token_secret)) =>
        /\ last.result = "None"
        /\ last.calls = <<>>

\* A delivered token whose reset_key was edited to another user's, presented
\* while unexpired, got None.
C3_Witness ==
    /\ Redeeming
    /\ last.token.wellformed
    /\ last.token.signer = handler.reset_token_secret
    /\ last.token.signed # last.token.payload
    /\ last.token.signed.exp = last.token.payload.exp
    /\ get_user_by_identifier(users, last.token.payload.reset_key) # NoUser
    /\ now < last.token.payload.exp
    /\ last.result = "None"

\* C4: a token issued by send_password_reset_email at time t is accepted
\* only at times strictly before its exp instant t + 600; presented at or
\* after that instant, exactly at exp included, it is rejected with None.
C4_RejectedFromExpiryOn ==
    (Redeeming /\ last.token \in DeliveredTokens(mailbox)) =>
        /\ (last.result = "user" => now < last.token.payload.exp)
        /\ (now >= last.token.payload.exp => last.result = "None")

\* C5: for a token that is correctly signed and unexpired but carries no
\* reset_key claim, get_user_for_reset_token returns None; no exception
\* reaches the caller.
C5_MalformedPayloadIsNone ==
    (Redeeming /\ TokenPasses /\ "reset_key" \notin DOMAIN last.token.payload) =>
        last.result = "None"

\* The default validator is in the slot.
DefaultValidator == handler.reset_token_validator = "accept_reset_token"

\* C6: the token of every reset e-mail, decoded before expiry with the
\* handler's secret, carries reset_key = reset_key_getter(u) for the user u
\* the mail was sent for; presented to get_user_for_reset_token before
\* expiry under the default validator, the result is
\* user_by_reset_key_getter(reset_key_getter(u)), None when that is no user.
C6_TokenRoundTrip ==
    \A m \in mailbox :
        LET token == m.link.token
            d == jwt_decode(token, handler.reset_token_secret, now)
            u == get_user_by_identifier(users, get_user_identifier(users, m.user))
        IN now < token.payload.exp =>
            /\ ~d.raised
            /\ d.data.reset_key = get_user_identifier(users, m.user)
            /\ (Redeeming /\ last.token = token /\ DefaultValidator) =>
                   /\ last.user = u
                   /\ last.result = IF u = NoUser THEN "None" ELSE "user"

\* The second user's token, presented a while after it was mailed and before
\* it expired, resolved the second user.
C6_Witness ==
    /\ Redeeming
    /\ DefaultValidator
    /\ \E m \in mailbox : m.user = 2 /\ m.link.token = last.token
    /\ now > 0
    /\ now < last.token.payload.exp
    /\ last.result = "user"
    /\ last.user = 2

\* C7: the validator is invoked exactly on the tokens that passed the
\* signature and expiry check; a token failing that check gets None without
\* validator or lookup being consulted; a token passing it gets None, and
\* no reset-key lookup, whenever the validator does not accept.
C7_ValidatorInAddition ==
    Redeeming =>
        /\ Called(last, "reset_token_validator") <=> TokenPasses
        /\ ~TokenPasses => (last.result = "None" /\ last.calls = <<>>)
        /\ (TokenPasses /\ last.verdict # "accept") =>
               /\ last.result = "None"
               /\ ~Called(last, "user_by_reset_key_getter")
               /\ ~Called(last, "password_updater")

\* A delivered, unexpired token that the host's validator rejected.
C7_Witness ==
    /\ Redeeming
    /\ ~DefaultValidator
    /\ last.token \in DeliveredTokens(mailbox)
    /\ TokenPasses
    /\ last.verdict = "reject"
    /\ last.result = "None"

\* C8: in the login that follows a completed password reset of the same
\* user, the new password logs the user in and every other password, the
\* replaced one included, is refused.
C8_ResetEndToEnd ==
    (last.op = "login" /\ last.reset_to # "") =>
        /\ last.password = last.reset_to =>
               (last.result = "True" /\ session.user_id = last.user)
        /\ last.password # last.reset_to =>
               (last.result = "False" /\ session = Anonymous)

\* After a reset that replaced Secret123 by NewPass123, the login with
\* NewPass123 succeeded.
C8_Witness ==
    /\ last.op = "login"
    /\ last.reset_from = "Secret123"
    /\ last.reset_to = "NewPass123"
    /\ last.password = "NewPass123"
    /\ last.result = "True"
    /\ mailbox # {}

\* C9: under the default validator, the token a password reset was just
\* completed with, presented again before its expiry, still resolves its
\* user, and a password submitted with it is stored.
C9_TokenReplayable ==
    (Redeeming /\ last.replayed /\ DefaultValidator
         /\ now < last.token.payload.exp) =>
        /\ last.result = "user"
        /\ last.user # NoUser
        /\ last.user = get_user_by_identifier(users, last.token.payload.reset_key)
        /\ last.password # "" =>
               /\ Called(last, "password_updater")
               /\ users[last.user].password = argon2_hash(last.password)

\* A second password update made with the same token, later than the first
\* and before the token expired.
C9_Witness ==
    /\ Redeeming
    /\ last.replayed
    /\ DefaultValidator
    /\ now > last.token.payload.exp - TTL
    /\ now < last.token.payload.exp
    /\ Called(last, "password_updater")
    /\ last.replaced # last.password

\* An existing user resolves for the identifier.
Resolves(us, identifier) == get_user_by_identifier(us, identifier) # NoUser

\* C10: a registration for which an existing user resolves under the
\* submitted username or e-mail address is rejected without invoking the
\* user inserter; a successful registration stores exactly the submitted
\* username and address, and stored ones stay, so every later registration
\* reusing either is rejected the same way.
C10_DuplicateRegistrationRejected ==
    [][/\ (/\ last'.op = "register"
           /\ last'.username # ""
           /\ Resolves(users, last'.username) \/ Resolves(users, last'.email))
          => /\ ~Called(last', "user_inserter")
             /\ last'.result = "invalid"
             /\ users' = users
       /\ (last'.op = "register" /\ last'.result = "True")
          => /\ Len(users') = Len(users) + 1
             /\ users'[Len(users')].username = last'.username
             /\ users'[Len(users')].email = last'.email
       /\ \A i \in DOMAIN users :
             /\ i \in DOMAIN users'
             /\ users'[i].username = users[i].username
             /\ users'[i].email = users[i].email
      ]_vars

\* A registration under a new username and the address of the one existing
\* user was rejected and the inserter not invoked.
C10_Witness ==
    /\ last.op = "register"
    /\ last.result = "invalid"
    /\ Len(users) = 1
    /\ last.username # users[1].username
    /\ last.email = users[1].email
    /\ ~Called(last, "user_inserter")

\* The mail send_password_reset_email hands to the sender for user at the
\* present time: the user and a link to the reset view embedding a token
\* with the claims {reset_key: reset_key_getter(user), exp: now + 600}.
MailFor(user) ==
    [user |-> user,
     link |-> [endpoint |-> "auth.reset",
               token |-> jwt_encode([reset_key |-> get_user_identifier(users, user),
                                     exp |-> now + 600],
                                    handler.reset_token_secret)]]

\* C21: a reset request for an address that resolves no user ends with
\* False after the user getter alone was called, and nothing is mailed; for
\* an address that resolves a user, reset-key getter and sender are each
\* called once, what the sender is handed is that user and a link whose
\* token has the claims {reset_key: reset_key_getter(user), exp: now + 600},
\* and the result is the sender's: True when it delivered, False, with
\* nothing new in the mailbox, when it did not.
C21_ResetMailAsSpecified ==
    [][(last'.op = "request_password_reset" /\ last'.result # "") =>
          LET user == get_user_by_identifier(users, last'.email)
          IN /\ last'.user = user
             /\ user = NoUser =>
                    /\ last'.result = "False"
                    /\ last'.calls = <<"user_getter">>
                    /\ mailbox' = mailbox
             /\ user # NoUser =>
                    /\ last'.calls = <<"user_getter", "reset_key_getter",
                                       "password_reset_email_sender">>
                    /\ send_password_reset_email(handler, users, last'.email,
                                                 now, TRUE).mail = {MailFor(user)}
                    /\ last'.result = "True" =>
                           mailbox' = mailbox \cup {MailFor(user)}
                    /\ last'.result = "False" => mailbox' = mailbox
                    /\ last'.result \in {"True", "False"}
      ]_vars

\* The sender did not deliver the mail for a user who exists: the request
\* ended with False and the mailbox is empty.
C21_Witness ==
    /\ last.op = "request_password_reset"
    /\ last.user # NoUser
    /\ last.result = "False"
    /\ Called(last, "password_reset_email_sender")
    /\ mailbox = {}

\* C22: the page answering a valid reset request is the same whether or not
\* the address belongs to a user and whether or not the sender delivered:
\* the answer given equals the answer to every other valid submission made
\* in the same state, whatever its address and the sender's result.
C22_ResetRequestAnswersAlike ==
    (last.op = "request_password_reset" /\ last.result # "") =>
        \A email \in RequestEmails, delivered \in BOOLEAN :
            request_password_reset_view(
                send_password_reset_email(handler, users, email, now, delivered))
              = [response |-> last.response, message |-> last.message]

\* A request for an address of no user was answered while another address
\* that could have been submitted belongs to a user.
C22_Witness ==
    /\ last.op = "request_password_reset"
    /\ last.email # ""
    /\ last.user = NoUser
    /\ last.response = "request_password_reset.html"
    /\ \E email \in RequestEmails : get_user_by_identifier(users, email) # NoUser

\* The views that turn a logged-in visitor away.
GuardedViews == {"login", "register", "request_password_reset", "reset"}

\* C24: for a visitor who is logged in, login, register,
\* request_password_reset and reset answer with the redirect to index and
\* do nothing else: no capability is called, and the session, the users and
\* their passwords, the mailbox and the handler stay as they were, also
\* when a valid reset token is there to be presented.
C24_LoggedInVisitorsAreTurnedAway ==
    [][(session.user_id # NoUser /\ last'.op \in GuardedViews) =>
          /\ last' = [Idle EXCEPT !.op = last'.op, !.response = "redirect:index"]
          /\ last'.calls = <<>>
          /\ UNCHANGED <<handler, users, now, mailbox, session>>
      ]_vars

\* A logged-in visitor opened the reset view while the token mailed to a
\* user was valid, and was sent to index.
C24_Witness ==
    /\ session.user_id # NoUser
    /\ last.op = "reset"
    /\ last.response = "redirect:index"
    /\ \E token \in DeliveredTokens(mailbox) :
          get_user_for_reset_token(handler, users, token, now, "accept").result = "user"

\* C25: the address of a reset request reaches the user getter lower-cased,
\* as the login name and the registration's username and address do: a
\* request resolves the user whose stored address is the lower-cased
\* submitted one, in whatever letter case it was typed.
C25_ResetRequestResolvesAnyCase ==
    (last.op = "request_password_reset" /\ last.result # "") =>
        last.user = get_user_by_identifier(users, lower(last.email))

\* C26: after a successful login the visitor is redirected to the next
\* parameter of the request when there is one and its parsed network
\* location is empty, and to the index page in every other case: no next
\* parameter, or one naming a host.  A failed login redirects nowhere: the
\* login page is shown.
C26_RedirectStaysInside ==
    /\ (last.op = "login" /\ last.result = "True") =>
          /\ last.response = "redirect:next_page"
          /\ last.location =
                IF last.next # NoneMapping /\ url_parse(last.next).netloc = ""
                THEN last.next ELSE url_for_index
    /\ (last.op = "login" /\ last.result = "False") =>
          /\ last.response = "login.html"
          /\ last.location = NoneMapping

\* A visitor logged in with a next parameter naming another host and was
\* sent to the index page.
C26_Witness ==
    /\ last.op = "login"
    /\ last.result = "True"
    /\ last.next = Url(<<"http:", "//", "evil.example", "/profile">>)
    /\ last.location = url_for_index

\* ------------------------------------------------ the handler being set up
\* The callbacks a host may put in each slot: those of demo.py and, for the
\* password getter, one more.
Callbacks ==
    [password_getter |-> {"get_user_password", "get_legacy_password"},
     password_reset_email_sender |-> {"console_password_reset_email_sender"},
     password_updater |-> {"update_user_password"},
     reset_key_getter |-> {"get_user_identifier"},
     user_getter |-> {"get_user_by_identifier"},
     user_by_reset_key_getter |-> {"get_user_by_identifier"},
     user_inserter |-> {"insert_user"}]

\* The decorator methods of UserHandler, each of them
\* self._<slot> = callback; return callback

\* UserHandler.password_getter
password_getter ==
    \E callback \in Callbacks.password_getter :
        /\ handler' = [handler EXCEPT !.password_getter = callback]
        /\ last' = [Idle EXCEPT !.op = "password_getter", !.result = callback]
        /\ UNCHANGED <<users, now, mailbox, session, requests>>

\* UserHandler.password_reset_email_sender
password_reset_email_sender ==
    \E callback \in Callbacks.password_reset_email_sender :
        /\ handler' = [handler EXCEPT !.password_reset_email_sender = callback]
        /\ last' = [Idle EXCEPT !.op = "password_reset_email_sender", !.result = callback]
        /\ UNCHANGED <<users, now, mailbox, session, requests>>

\* UserHandler.password_updater
password_updater ==
    \E callback \in Callbacks.password_updater :
        /\ handler' = [handler EXCEPT !.password_updater = callback]
        /\ last' = [Idle EXCEPT !.op = "password_updater", !.result = callback]
        /\ UNCHANGED <<users, now, mailbox, session, requests>>

\* UserHandler.reset_key_getter
reset_key_getter ==
    \E callback \in Callbacks.reset_key_getter :
        /\ handler' = [handler EXCEPT !.reset_key_getter = callback]
        /\ last' = [Idle EXCEPT !.op = "reset_key_getter", !.result = callback]
        /\ UNCHANGED <<users, now, mailbox, session, requests>>

\* UserHandler.user_getter
user_getter ==
    \E callback \in Callbacks.user_getter :
        /\ handler' = [handler EXCEPT !.user_getter = callback]
        /\ last' = [Idle EXCEPT !.op = "user_getter", !.result = callback]
        /\ UNCHANGED <<users, now, mailbox, session, requests>>

\* UserHandler.user_by_reset_key_getter
user_by_reset_key_getter ==
    \E callback \in Callbacks.user_by_reset_key_getter :
        /\ handler' = [handler EXCEPT !.user_by_reset_key_getter = callback]
        /\ last' = [Idle EXCEPT !.op = "user_by_reset_key_getter", !.result = callback]
        /\ UNCHANGED <<users, now, mailbox, session, requests>>

\* UserHandler.user_inserter
user_inserter ==
    \E callback \in Callbacks.user_inserter :
        /\ handler' = [handler EXCEPT !.user_inserter = callback]
        /\ last' = [Idle EXCEPT !.op = "user_inserter", !.result = callback]
        /\ UNCHANGED <<users, now, mailbox, session, requests>>

\* user_handler.reset_token_secret = <the host's secret>
set_reset_token_secret ==
    /\ handler' = [handler EXCEPT !.reset_token_secret = "DemoResetTokenSecret"]
    /\ last' = [Idle EXCEPT !.op = "reset_token_secret"]
    /\ UNCHANGED <<users, now, mailbox, session, requests>>

\* What the host's code hands to the flows while it sets the handler up.
SetupIdentifiers == {"alice", "bobby"}
SetupRegistration == RegistrationData_from_form("alice", "A@x.io", "Secret123")

\* A call of UserHandler.get_user
GetUser ==
    \E identifier \in SetupIdentifiers :
        LET r == get_user(handler, users, identifier)
        IN /\ last' = [Idle EXCEPT !.op = "get_user",
                                   !.result = IF r.raised THEN "raise"
                                              ELSE IF r.user = NoUser THEN "None"
                                              ELSE "user",
                                   !.username = identifier,
                                   !.user = r.user, !.calls = r.calls]
           /\ UNCHANGED <<handler, users, now, mailbox, session, requests>>

\* A call of UserHandler.login_user
LoginUser ==
    \E identifier \in SetupIdentifiers, password \in FormPasswords :
        LET data == LoginData_from_form(identifier, password, FALSE)
            r == login_user(handler, users, session, data)
        IN /\ session' = r.session
           /\ last' = [Idle EXCEPT !.op = "login_user", !.result = r.result,
                                   !.username = data.username,
                                   !.password = data.password,
                                   !.login_user = r.login_user,
                                   !.user = r.user, !.calls = r.calls]
           /\ UNCHANGED <<handler, users, now, mailbox, requests>>

\* A call of UserHandler.insert_user
InsertUser ==
    LET r == insert_user(handler, users, SetupRegistration)
    IN /\ users' = r.users
       /\ last' = [Idle EXCEPT !.op = "insert_user", !.result = r.result,
                               !.username = SetupRegistration.username,
                               !.email = SetupRegistration.email,
                               !.calls = r.calls]
       /\ UNCHANGED <<handler, now, mailbox, session, requests>>

\* send_password_reset_email that, finding no secret set, stores one of
\* its own in the handler before it signs.
SendPasswordResetEmail_setting_secret ==
    \E email \in LowerEmails :
        LET h == IF handler.reset_token_secret = None
                 THEN [handler EXCEPT !.reset_token_secret = "DefaultSecret"]
                 ELSE handler
            r == send_password_reset_email(h, users, email, now, TRUE)
        IN /\ Cardinality(mailbox \cup r.mail) <= MaxMail
           /\ mailbox' = mailbox \cup r.mail
           /\ handler' = h
           /\ last' = [Idle EXCEPT !.op = "send_password_reset_email",
                                   !.result = r.result, !.email = email,
                                   !.user = r.user, !.calls = r.calls]
           /\ UNCHANGED <<users, now, session, requests>>

\* A call of UserHandler.send_password_reset_email
SendPasswordResetEmail ==
    \E email \in LowerEmails :
        LET r == send_password_reset_email(handler, users, email, now, TRUE)
        IN /\ Cardinality(mailbox \cup r.mail) <= MaxMail
           /\ mailbox' = mailbox \cup r.mail
           /\ last' = [Idle EXCEPT !.op = "send_password_reset_email",
                                   !.result = r.result, !.email = email,
                                   !.user = r.user, !.calls = r.calls]
           /\ UNCHANGED <<handler, users, now, session, requests>>

\* The tokens the host's code has at hand: one signed with the secret the
\* host means to set, for the address of SetupRegistration, and no JWT.
SetupTokens ==
    {jwt_encode([reset_key |-> "a@x.io", exp |-> TTL], "DemoResetTokenSecret"),
     NoToken}

\* A call of UserHandler.get_user_for_reset_token
GetUserForResetToken ==
    \E token \in DeliveredTokens(mailbox) \cup SetupTokens,
       host_verdict \in HostVerdictsFor(handler) :
        LET r == get_user_for_reset_token(handler, users, token, now, host_verdict)
        IN /\ last' = [Idle EXCEPT !.op = "get_user_for_reset_token",
                                   !.result = r.result, !.token = token,
                                   !.verdict = IF Called(r, "reset_token_validator")
                                               THEN host_verdict ELSE "",
                                   !.user = r.user, !.calls = r.calls]
           /\ UNCHANGED <<handler, users, now, mailbox, session, requests>>

\* A call of UserHandler.update_password, for a user the host holds.
UpdatePassword ==
    \E user \in DOMAIN users :
        LET r == update_password(handler, users, user, argon2_hash("NewPass123"))
        IN /\ users' = r.users
           /\ last' = [Idle EXCEPT !.op = "update_password", !.result = r.result,
                                   !.password = "NewPass123",
                                   !.user = user, !.calls = r.calls]
           /\ UNCHANGED <<handler, now, mailbox, session, requests>>

\* blueprint.py: user_handler = UserHandler(), nothing assigned yet.
InitSetup ==
    /\ handler = UserHandler
    /\ users = <<>>
    /\ now = 0
    /\ mailbox = {}
    /\ session = Anonymous
    /\ last = Idle
    /\ requests = <<>>

NextSetup ==
    \/ password_getter
    \/ password_reset_email_sender
    \/ password_updater
    \/ reset_key_getter
    \/ user_getter
    \/ user_by_reset_key_getter
    \/ user_inserter
    \/ reset_token_validator
    \/ set_reset_token_secret
    \/ GetUser
    \/ LoginUser
    \/ InsertUser
    \/ SendPasswordResetEmail
    \/ GetUserForResetToken
    \/ UpdatePassword

SpecSetup == InitSetup /\ [][NextSetup]_vars

\* --------------------------------------------- claims about the setting up
\* C11: a flow that needs a capability slot that is still unassigned raises;
\* it never returns False or None in its place.  In particular login_user
\* with a resolved user and no password getter does not return False.
C11_UnassignedSlotRaises ==
    /\ (/\ last.op \in {"get_user", "login_user", "send_password_reset_email"}
        /\ handler.user_getter = None)
       => last.result = "raise"
    /\ (/\ last.op = "login_user"
        /\ last.user # NoUser
        /\ handler.password_getter = None)
       => last.result = "raise"
    /\ (last.op = "insert_user" /\ handler.user_inserter = None)
       => last.result = "raise"
    /\ (last.op = "update_password" /\ handler.password_updater = None)
       => last.result = "raise"
    /\ (/\ last.op = "send_password_reset_email"
        /\ last.user # NoUser
        /\ \/ handler.reset_key_getter = None
           \/ handler.password_reset_email_sender = None)
       => last.result = "raise"
    /\ (/\ last.op = "get_user_for_reset_token"
        /\ TokenPasses
        /\ last.verdict = "accept"
        /\ handler.user_by_reset_key_getter = None)
       => last.result = "raise"

\* C12: login_user called while no user getter is assigned raises, calls no
\* callback and leaves the session alone; that is another outcome than the
\* False it returns when an assigned user getter resolves no user.
C12_LoginBeforeUserGetterRaises ==
    last.op = "login_user" =>
        /\ handler.user_getter = None =>
               /\ last.result = "raise"
               /\ last.calls = <<>>
               /\ session = Anonymous
        /\ (handler.user_getter # None /\ last.user = NoUser) =>
               last.result = "False"

\* login_user raised on the handler as constructed, nothing assigned.
C12_Witness ==
    /\ last.op = "login_user"
    /\ handler = UserHandler
    /\ last.result = "raise"

\* C13: while reset_token_secret is None, issuing a token (for a resolved
\* user, reset key in hand) and redeeming a well-formed token both raise;
\* neither ends in the False or None of a token found invalid.
C13_UnsetSecretRaises ==
    handler.reset_token_secret = None =>
        /\ (/\ last.op = "send_password_reset_email"
            /\ last.user # NoUser
            /\ handler.reset_key_getter # None)
           => last.result = "raise"
        /\ (last.op = "get_user_for_reset_token" /\ last.token.wellformed)
           => last.result = "raise"

\* C15: when the user is resolved and argon2.verify raises on what the
\* password getter returned (a stored value that is no argon2 hash),
\* login_user returns False, hands nothing to flask_login and leaves the
\* session as it was.
C15_VerifyExceptionIsFalse ==
    [][(/\ last'.op = "login_user"
        /\ last'.user # NoUser
        /\ handler.password_getter # None
        /\ argon2_verify(last'.password,
                         call_password_getter(handler, users, last'.user)) = "raise")
       => /\ last'.result = "False"
          /\ last'.login_user = <<>>
          /\ session' = session
      ]_vars

\* The right password, refused because the getter in the slot returns a
\* hash of another scheme.
C15_Witness ==
    /\ last.op = "login_user"
    /\ handler.password_getter = "get_legacy_password"
    /\ last.user # NoUser
    /\ users[last.user].password = argon2_hash(last.password)
    /\ last.result = "False"
    /\ session = Anonymous

\* Every slot a decorator assigns, with the callbacks the host gives it.
SlotCallbacks ==
    [reset_token_validator |-> {"host_token_validator"}] @@ Callbacks

\* The flow methods of UserHandler.
Flows ==
    {"get_user", "login_user", "insert_user", "send_password_reset_email",
     "get_user_for_reset_token", "update_password"}

\* C19: a decorator puts the callback it is given in its slot, returns that
\* callback and touches no other slot nor the secret; a flow calls what is
\* in the slot when it runs: login_user verifies against the value of the
\* password getter assigned last, and only a validator assigned by the host
\* rejects a token that decodes.
C19_CallbacksReadAtCallTime ==
    [][/\ \A slot \in DOMAIN SlotCallbacks :
             last'.op = slot =>
                 /\ last'.result \in SlotCallbacks[slot]
                 /\ handler' = [handler EXCEPT ![slot] = last'.result]
       /\ (/\ last'.op = "login_user"
           /\ last'.user # NoUser
           /\ handler.password_getter # None)
          => LET stored == IF handler.password_getter = "get_legacy_password"
                           THEN get_legacy_password(users, last'.user)
                           ELSE get_user_password(users, last'.user)
             IN last'.result = IF argon2_verify(last'.password, stored) = "true"
                               THEN "True" ELSE "False"
       /\ (last'.op = "get_user_for_reset_token" /\ last'.verdict = "reject")
          => handler.reset_token_validator = "host_token_validator"
      ]_vars

\* The password getter was assigned again after a login had succeeded: the
\* right password is now refused, by the getter assigned last.  One
\* function sits in two slots.
C19_Witness ==
    /\ last.op = "login_user"
    /\ handler.password_getter = "get_legacy_password"
    /\ session.user_id = last.user
    /\ last.user # NoUser
    /\ users[last.user].password = argon2_hash(last.password)
    /\ last.result = "False"
    /\ handler.user_getter = "get_user_by_identifier"
    /\ handler.user_by_reset_key_getter = handler.user_getter

\* C20: a flow method leaves every slot of the handler and its
\* reset_token_secret as they were, whether it returns True, False, a user
\* or None, or raises.
C20_FlowsLeaveTheHandlerAlone ==
    [][last'.op \in Flows => handler' = handler]_vars

\* A flow that raised on a handler partly set up, which is as it was.
C20_Witness ==
    /\ last.op = "send_password_reset_email"
    /\ last.result = "raise"
    /\ handler.user_getter # None
    /\ handler.reset_key_getter # None
    /\ handler.reset_token_secret = None
    /\ handler.password_updater = None

\* ------------------------------------------------- claims about the routes
\* What login_user answers, in the present state, to a submission of the
\* login form by a visitor not logged in.
LoginResult(username, password) ==
    login_user(handler, users, Anonymous,
               LoginData_from_form(username, password, FALSE)).result

\* C14 as stated: a wrong password for an existing user and an identifier
\* that resolves to no user get different result values from login_user.
C14_FailureCausesDistinguished ==
    \A known \in LoginIdentifiers, unknown \in LoginIdentifiers,
       wrong \in FormPasswords, any \in FormPasswords :
        (/\ Resolves(users, lower(known))
         /\ ~Resolves(users, lower(unknown))
         /\ LoginResult(known, wrong) # "True")
        => LoginResult(known, wrong) # LoginResult(unknown, any)

\* C14 as amended: the result of login_user tells success from failure and
\* nothing more; a failed login got False, the value every other failing
\* submission gets in the same state, whichever of the two causes it has.
C14_FailuresShareOneResult ==
    (last.op = "login" /\ last.result # "" /\ last.result # "True") =>
        /\ last.result = "False"
        /\ \A username \in LoginIdentifiers, password \in FormPasswords :
               LoginResult(username, password) # "True"
                   => LoginResult(username, password) = last.result

\* A login refused for a wrong password while another identifier of the
\* form resolves no user.
C14_Witness ==
    /\ last.op = "login"
    /\ last.result = "False"
    /\ last.user # NoUser
    /\ \E unknown \in LoginIdentifiers : ~Resolves(users, lower(unknown))

\* C16: a failed login gets the page and the error text that any other
\* failing submission of the same password gets in the same state, whether
\* its identifier resolves to a user or not.
C16_FailedLoginsLookAlike ==
    (last.op = "login" /\ last.result = "False") =>
        \A username \in LoginIdentifiers :
            LET o == login_user(handler, users, Anonymous,
                                LoginData_from_form(username, last.password, FALSE))
            IN o.result = "False" =>
                   /\ login_view(o).response = last.response
                   /\ login_view(o).message = last.message

\* A login refused for an unknown identifier while the same password is a
\* wrong one for an identifier that resolves.
C16_Witness ==
    /\ last.op = "login"
    /\ last.result = "False"
    /\ last.user = NoUser
    /\ last.response = "login.html"
    /\ \E username \in LoginIdentifiers :
          /\ Resolves(users, lower(username))
          /\ LoginResult(username, last.password) = "False"

\* C17: what the registration route hands to the user inserter as password,
\* and what the reset route hands to the password updater, is argon2.hash of
\* the password submitted; the host's store, which keeps what it is handed,
\* never receives the password itself.
C17_OnlyHashesReachTheHost ==
    [][/\ (last'.op = "register" /\ Called(last', "user_inserter"))
          => /\ Len(users') = Len(users) + 1
             /\ users'[Len(users')].password = argon2_hash(last'.password)
             /\ users'[Len(users')].password.scheme = "argon2"
       /\ (last'.op = "reset" /\ Called(last', "password_updater"))
          => /\ users'[last'.user].password = argon2_hash(last'.password)
             /\ users'[last'.user].password.scheme = "argon2"
       /\ \A i \in DOMAIN users' : users'[i].password.scheme = "argon2"
      ]_vars

\* A registration with the password Secret123 whose record holds its hash.
C17_Witness ==
    /\ last.op = "register"
    /\ Called(last, "user_inserter")
    /\ last.password = "Secret123"
    /\ users[Len(users)].username = last.username
    /\ users[Len(users)].password = argon2_hash("Secret123")

\* ------------------------------------- registrations handled concurrently
\* The server handles requests in threads: a registration request may be
\* between form.validate_on_submit() and user_handler.insert_user(...) while
\* another one runs.
MaxRequests == 2

Requests == 1..MaxRequests

\* A registration request not yet looked at.
Arrived ==
    [pc |-> "validate_on_submit", username |-> "", email |-> "", password |-> "",
     result |-> "", response |-> "", calls |-> <<>>]

\* blueprint.register up to form.validate_on_submit(): the validators of
\* the form run against the store as it is now.
validate_on_submit(p) ==
    /\ requests[p].pc = "validate_on_submit"
    /\ \E username \in FormUsernames, email \in FormEmails,
          password \in FormPasswords :
          LET vu == validate_username(handler, users, username)
              ve == validate_email(handler, users, email)
          IN requests' = [requests EXCEPT ![p] =
                 [pc |-> IF vu.ok /\ ve.ok THEN "insert_user" ELSE "done",
                  username |-> lower(username),
                  email |-> lower(email),
                  password |-> password,
                  result |-> IF vu.ok /\ ve.ok THEN "" ELSE "invalid",
                  response |-> IF vu.ok /\ ve.ok THEN "" ELSE "register.html",
                  calls |-> vu.calls \o ve.calls]]
    /\ UNCHANGED <<handler, users, now, mailbox, session, last>>

\* blueprint.register from user_handler.insert_user(...) on, for a request
\* whose form validated.
register_insert_user(p) ==
    /\ requests[p].pc = "insert_user"
    /\ LET data == [username |-> requests[p].username,
                    email |-> requests[p].email,
                    password |-> argon2_hash(requests[p].password)]
           r == insert_user(handler, users, data)
       IN /\ users' = r.users
          /\ requests' = [requests EXCEPT ![p] =
                 [@ EXCEPT !.pc = "done", !.result = r.result,
                           !.response = register_view(r),
                           !.calls = @ \o r.calls]]
    /\ UNCHANGED <<handler, now, mailbox, session, last>>

InitRace ==
    /\ handler = ConfiguredHandler
    /\ users = <<>>
    /\ now = 0
    /\ mailbox = {}
    /\ session = Anonymous
    /\ last = Idle
    /\ requests = [p \in Requests |-> Arrived]

NextRace ==
    \E p \in Requests :
        \/ validate_on_submit(p)
        \/ register_insert_user(p)

SpecRace == InitRace /\ [][NextRace]_vars

\* C18: nothing between validation and insertion looks at the store again:
\* a request whose form validated invokes the user inserter when it goes
\* on, also when a request validated at the same time has meanwhile
\* inserted the same username or address.
C18_ValidatedRequestInserts ==
    [][\A p \in Requests :
          (requests[p].pc = "insert_user" /\ requests'[p].pc = "done")
          => Called(requests'[p], "user_inserter")
      ]_vars

\* Two requests for one username: both validated before either inserted,
\* and the inserter was invoked for both.
C18_Witness ==
    \E p \in Requests, q \in Requests :
        /\ p # q
        /\ requests[p].username = requests[q].username
        /\ requests[p].pc = "done"
        /\ requests[q].pc = "done"
        /\ Called(requests[p], "user_inserter")
        /\ Called(requests[q], "user_inserter")

\* The calls req made to the capability in slot.
CallsTo(req, slot) ==
    Cardinality({i \in DOMAIN req.calls : req.calls[i] = slot})

\* C23: a registration whose form validated calls the user inserter once,
\* with the registration data, and what the inserter answers decides the
\* rest: its True is the result of insert_user and the visitor is sent to
\* the login page; its False is the result of insert_user and the form is
\* shown again.
C23_InserterDecides ==
    [][\A p \in Requests :
          (requests[p].pc = "insert_user" /\ requests'[p].pc = "done") =>
              LET data == [username |-> requests[p].username,
                           email |-> requests[p].email,
                           password |-> argon2_hash(requests[p].password)]
                  inserted == demo_insert_user(users, data)
              IN /\ CallsTo(requests'[p], "user_inserter") = 1
                 /\ users' = inserted.users
                 /\ inserted.ok =>
                        /\ requests'[p].result = "True"
                        /\ requests'[p].response = "redirect:auth.login"
                        /\ users'[Len(users')] = data
                 /\ ~inserted.ok =>
                        /\ requests'[p].result = "False"
                        /\ requests'[p].response = "register.html"
      ]_vars

\* Two registrations validated side by side: the inserter accepted one,
\* whose visitor went on to the login page, and turned the other down, whose
\* visitor got the form again.
C23_Witness ==
    \E p \in Requests, q \in Requests :
        /\ requests[p].pc = "done"
        /\ requests[p].result = "True"
        /\ requests[p].response = "redirect:auth.login"
        /\ requests[q].pc = "done"
        /\ requests[q].result = "False"
        /\ requests[q].response = "register.html"
        /\ CallsTo(requests[q], "user_inserter") = 1

====
